---- MODULE Spec2Model ----
(***************************************************************************)
(* Model of the Telegram/Notion automation scripts.                        *)
(*                                                                         *)
(* Part 1: the event-classification and date-inference functions of        *)
(* src/cleanup_telegram_message_past_events/                               *)
(*     telegram_cleanup_delete_past_events.py                              *)
(*                                                                         *)
(* A message text is a non-empty sequence of lines (text.split('\n')),     *)
(* each line a sequence of tokens.  A token is a literal piece of text     *)
(* (Word), a "D MONTH" token (DateTok) or a parenthesised range            *)
(* "(D MON - D MON)" (RangeTok).  Glyphs are written in ASCII:             *)
(*   ":calendar:" U+1F4C5, ":bullet:" U+2022, ":sparkles:" U+2728,         *)
(*   ":fire:" U+1F525.                                                     *)
(***************************************************************************)
EXTENDS Integers, Sequences, FiniteSets, TLC

VARIABLES
    text,        \* message.text of the message under examination
    post_date,   \* message.date: [year, month, day, hour, tz]
    now,         \* the wall clock (datetime.now()), read by dateutil's default
    called,      \* which function has been applied to (text, post_date)
    ret_bool,    \* value returned by a classifier
    ret_date,    \* value returned by a date extractor
    again,       \* TRUE once the function has been applied a second time
    prev_bool,   \* ret_bool of the first application
    prev_date,   \* ret_date of the first application
    \* scan_and_clean_channel
    args,          \* parsed command line: [live, test, dry_run]
    pc,            \* position of the cleanup run
    dry_run,       \* parameter of scan_and_clean_channel
    auto_confirm,  \* parameter of scan_and_clean_channel
    messages,      \* what client.iter_messages(channel_name) yields, in order
    scan_pos,      \* index of the next message of the iteration
    events,        \* the list of event records
    counts,        \* regular_count, weekly_count, daily_count of the summary
    prompted,      \* TRUE once the user has answered the deletion prompt
    confirm,       \* the local variable confirm
    to_delete,     \* records of past_df not yet iterated
    delete_called, \* message ids delete_messages was called with
    deleted_count, \* the local variable deleted_count
    \* schedule_all_events
    notion_db,        \* the Notion pages: event id -> [ready, published, urgency]
    s_pc,             \* position of the scheduler run
    s_dry_run,        \* parameter dry_run of schedule_all_events
    single_mode,      \* parameter single_mode of schedule_all_events
    channels,         \* parameter channels of schedule_all_events
    max_scheduled,    \* MAX_SCHEDULED, read from the environment
    scheduled_count,  \* the local variable scheduled_count
    events_remaining, \* the local variable events_remaining (event ids)
    day_offset,       \* the local variable day_offset
    windows_left,     \* windows of the current day not yet iterated
    daily_limit,      \* the local variable daily_limit
    daily_posted,     \* the local variable daily_posted
    scheduled_posts,  \* posts of the current window not yet iterated
    sent_once,        \* <<event, channel>> pairs send_file succeeded for
    sent_again,       \* TRUE once send_file succeeded again for such a pair
    state_saved,      \* TRUE once save_schedule_state has written the file
    last_call,        \* the last call of schedule_single_event
    \* sync_events
    u_pc,              \* position of the updater run
    u_test_mode,       \* parameter test_mode of sync_events
    u_events,          \* what fetch_events_with_telegram_ids returns
    u_pos,             \* index of the next event of the loop
    msg_cache,         \* MessageCache.messages: message id -> cached message
    telegram_texts,    \* text of each message on Telegram, None when missing
    edit_called,       \* message ids client.edit_message was called with
    timestamp_updated, \* message ids update_notion_timestamp was called for
    cache_saved,       \* TRUE once MessageCache.save has written the file
    \* run_cached_linker
    l_pc,                 \* position of the linker run
    l_test_mode,          \* parameter test_mode of run_cached_linker
    l_channel,            \* the channel smart_link_events is scanning
    do_full_scan,         \* the local variable do_full_scan
    tg_channels,          \* channel -> its event posts, newest first
    notion_ids,           \* the Notion event's message id per channel
    link_cache,           \* CacheManager.cache / cache_test: linked message ids
    last_full_scan,       \* CacheManager.last_full_scan
    cache_file,           \* content of CACHE_FILE
    cache_written,        \* TRUE once save_cache has written CACHE_FILE
    existing_message_ids, \* the local variable existing_message_ids
    telegram_events,      \* records of telegram_events not yet iterated
    notion_events,        \* EventMatcher.notion_events: key -> ids as loaded
    notion_updates,       \* the successful notion.pages.update calls
    newly_linked          \* stats["newly_linked"] of each channel

repeatVars == <<again, prev_bool, prev_date>>

scanVars == <<args, pc, dry_run, auto_confirm, messages, scan_pos, events, counts,
              prompted, confirm, to_delete, delete_called, deleted_count>>

schedVars == <<notion_db, s_pc, s_dry_run, single_mode, channels, max_scheduled,
               scheduled_count, events_remaining, day_offset, windows_left, daily_limit,
               daily_posted, scheduled_posts, sent_once, sent_again, state_saved,
               last_call>>

syncVars == <<u_pc, u_test_mode, u_events, u_pos, msg_cache, telegram_texts,
              edit_called, timestamp_updated, cache_saved>>

linkVars == <<l_pc, l_test_mode, l_channel, do_full_scan, tg_channels, notion_ids,
              link_cache, last_full_scan, cache_file, cache_written,
              existing_message_ids, telegram_events, notion_events, notion_updates,
              newly_linked>>

otherVars == <<repeatVars, scanVars, schedVars, syncVars, linkVars>>

vars == <<text, post_date, now, called, ret_bool, ret_date, otherVars>>

(***************************************************************************)
(* Python values                                                           *)
(***************************************************************************)
None == [none |-> TRUE]

ValueError == [exc |-> "ValueError"]

datetime(y, m, d, h, z) == [year |-> y, month |-> m, day |-> d, hour |-> h, tz |-> z]

(***************************************************************************)
(* The proleptic Gregorian calendar of datetime                            *)
(***************************************************************************)
isleap(y) == (y % 4 = 0) /\ ((y % 100 # 0) \/ (y % 400 = 0))

days_in_month(y, m) ==
    IF m = 2 THEN (IF isleap(y) THEN 29 ELSE 28)
    ELSE IF m \in {4, 6, 9, 11} THEN 30 ELSE 31

valid_ymd(y, m, d) == m \in 1..12 /\ d >= 1 /\ d <= days_in_month(y, m)

RECURSIVE days_before_month(_, _)
days_before_month(y, m) ==
    IF m <= 1 THEN 0 ELSE days_before_month(y, m - 1) + days_in_month(y, m - 1)

days_before_year(y) ==
    (y - 1) * 365 + ((y - 1) \div 4) - ((y - 1) \div 100) + ((y - 1) \div 400)

toordinal(dt) == days_before_year(dt.year) + days_before_month(dt.year, dt.month) + dt.day

\* (a - b).days for naive datetimes: the floor of the difference in days
timedelta_days(a, b) ==
    (((toordinal(a) - toordinal(b)) * 24) + (a.hour - b.hour)) \div 24

\* a < b for naive datetimes
datetime_lt(a, b) ==
    \/ toordinal(a) < toordinal(b)
    \/ toordinal(a) = toordinal(b) /\ a.hour < b.hour

\* dt.replace(year=y): raises ValueError when the day does not exist in y
replace_year(dt, y) ==
    IF valid_ymd(y, dt.month, dt.day)
    THEN [dt EXCEPT !.year = y]
    ELSE ValueError

\* post_date.replace(tzinfo=None) when post_date carries a timezone
strip_tz(dt) == [dt EXCEPT !.tz = FALSE]

(***************************************************************************)
(* Tokens and the string operations the code applies to them               *)
(***************************************************************************)
Word(s) == [kind |-> "word", s |-> s, d1 |-> 0, m1 |-> "", d2 |-> 0, m2 |-> ""]

DateTok(d, m) == [kind |-> "date", s |-> "", d1 |-> d, m1 |-> m, d2 |-> 0, m2 |-> ""]

RangeTok(d1, m1, d2, m2) ==
    [kind |-> "range", s |-> "", d1 |-> d1, m1 |-> m1, d2 |-> d2, m2 |-> m2]

\* str.lower() on the literals that occur in texts and patterns
lower(s) ==
    CASE s = "This Week" -> "this week"
      [] s = "Tonight" -> "tonight"
      [] s = "Here's what's going on" -> "here's what's going on"
      [] s = "Good evening" -> "good evening"
      [] s = "Upcoming events" -> "upcoming events"
      [] s = "Party" -> "party"
      [] s = "   Tickets" -> "   tickets"
      [] s = "JAN" -> "jan"
      [] s = "FEB" -> "feb"
      [] s = "MAR" -> "mar"
      [] s = "AUG" -> "aug"
      [] s = "SEP" -> "sep"
      [] s = "Sep" -> "sep"
      [] s = "SEPTEMBER" -> "september"
      [] s = "DEC" -> "dec"
      [] s = "FOO" -> "foo"
      [] s = "MAI" -> "mai"
      [] s = "PM" -> "pm"
      [] OTHER -> s

\* p in s, for literals s that occur in texts
contains(s, p) ==
    \/ s = p
    \/ <<s, p>> \in { <<"today's", "today">>,
                      <<":bullet: **", ":bullet:">>,
                      <<"   Ticketswap", "   Tickets">>,
                      <<"later today", "today">> }

\* [A-Z]{3} followed by the range's delimiter: exactly three ASCII capitals
IsUpper3(w) == w \in {"JAN", "FEB", "MAR", "AUG", "SEP", "DEC", "FOO", "MAI"}

\* a day+month pattern that accepts capitals only
IsAlpha3_UpperOnly(w) == w \in {"JAN", "FEB", "MAR", "AUG", "SEP", "DEC", "FOO", "MAI",
                                "SEPTEMBER"}

\* [A-Za-zÀ-ÿ]{3,}: every month word of the vocabulary but the two-letter one
IsAlpha3(w) == w \in {"JAN", "FEB", "MAR", "AUG", "SEP", "DEC", "FOO", "MAI",
                      "sep", "Sep", "SEPTEMBER", "aug", "and"}

RECURSIVE Flatten(_)
Flatten(lines) ==
    IF lines = <<>> THEN <<>> ELSE Head(lines) \o Flatten(Tail(lines))

Min(S) == CHOOSE x \in S : \A y \in S : x <= y

\* pattern in text
InText(p, t) ==
    \E i \in 1..Len(t) : \E j \in 1..Len(t[i]) :
        t[i][j].kind = "word" /\ contains(t[i][j].s, p)

\* pattern.lower() in text.lower()
InLowerText(p, t) ==
    \E i \in 1..Len(t) : \E j \in 1..Len(t[i]) :
        t[i][j].kind = "word" /\ contains(lower(t[i][j].s), lower(p))

\* text.count(p)
count(t, p) ==
    LET f == Flatten(t)
    IN  Cardinality({i \in 1..Len(f) : f[i].kind = "word" /\ contains(f[i].s, p)})

\* text.split('\n', 1)[0]
first_line(t) == t[1]

\* re.search(r'\((\d{1,2})\s+([A-Z]{3})\s*-\s*(\d{1,2})\s+([A-Z]{3})\)', text):
\* the leftmost range whose two month tokens are three capitals, or None
range_search(t) ==
    LET f == Flatten(t)
        hits == {i \in 1..Len(f) :
                    f[i].kind = "range" /\ IsUpper3(f[i].m1) /\ IsUpper3(f[i].m2)}
    IN  IF hits = {} THEN None ELSE f[Min(hits)]

\* where r'(\d{1,2})\s*([A-Za-zÀ-ÿ]{3,})' matches inside one token
date_groups(tok) ==
    IF tok.kind = "word" THEN None
    ELSE IF IsAlpha3(tok.m1) THEN [day |-> tok.d1, month |-> tok.m1]
    ELSE IF tok.kind = "range" /\ IsAlpha3(tok.m2) THEN [day |-> tok.d2, month |-> tok.m2]
    ELSE None

\* re.search(r'(\d{1,2})\s*([A-Za-zÀ-ÿ]{3,})', first_line): leftmost match
date_search(line) ==
    LET hits == {i \in 1..Len(line) : date_groups(line[i]) # None}
    IN  IF hits = {} THEN None ELSE date_groups(line[Min(hits)])

(***************************************************************************)
(* dateutil.parser.parse(f"{day} {month} {year}", dayfirst=True)           *)
(* with default = today at midnight                                        *)
(***************************************************************************)
\* parserinfo.MONTHS, looked up on the lower-cased token; 0 when it is no month
month_number(w) ==
    CASE lower(w) = "jan" -> 1
      [] lower(w) = "feb" -> 2
      [] lower(w) = "mar" -> 3
      [] lower(w) = "aug" -> 8
      [] lower(w) \in {"sep", "sept", "september"} -> 9
      [] lower(w) = "dec" -> 12
      [] OTHER -> 0

\* parserinfo.JUMP: words the parser skips
is_jump(w) == lower(w) \in {"at", "on", "and", "ad", "m", "t", "of", "st", "nd", "rd", "th"}

parse(day, month, year, today) ==
    IF month_number(month) # 0
    THEN \* day, month name, 4-digit year
         IF valid_ymd(year, month_number(month), day)
         THEN datetime(year, month_number(month), day, 0, FALSE)
         ELSE ValueError
    ELSE IF is_jump(month)
    THEN \* two numbers "D YYYY": D is read as the month, the day is taken
         \* from the default (today), cut to the length of that month
         IF day \in 1..12
         THEN datetime(year, day,
                       IF today.day > days_in_month(year, day)
                       THEN days_in_month(year, day) ELSE today.day,
                       0, FALSE)
         ELSE ValueError
    ELSE ValueError  \* unknown token

(***************************************************************************)
(* DATE EXTRACTION FUNCTIONS                                               *)
(***************************************************************************)
CALENDAR == ":calendar:"

BULLET == ":bullet:"

weekly_patterns ==
    {"Here's what's going on", "this week", "Good evening",
     "what's up this", "weekend", "Upcoming events"}

is_weekly_summary(t) ==
    IF InText(CALENDAR, t)
    THEN \E pattern \in weekly_patterns : InLowerText(pattern, t)
    ELSE IF range_search(t) # None
    THEN InText(BULLET, t)
    ELSE FALSE

daily_indicators ==
    {"today", "tonight", "this evening", "this afternoon",
     "happening now", "later today", "daily", "today's"}

script_patterns ==
    {":bullet: **", "   Facebook", "   Tickets", "   Ticketswap", ":blackstar: <a href="}

daily_emojis == {":sparkles:", ":fire:", ":tada:", ":confetti:", ":dizzy:", ":star:"}

SHORT_MAX_LINES == 20

telegram_url_count(t) == count(t, "t.me/")

is_short(t) == Len(t) <= SHORT_MAX_LINES

has_date_in_first_line(t) == date_search(first_line(t)) # None

has_today_reference(t) == \E indicator \in daily_indicators : InLowerText(indicator, t)

has_script_pattern(t) == \E pattern \in script_patterns : InText(pattern, t)

has_daily_emoji(t) == \E emoji \in daily_emojis : InText(emoji, t)

\* is_daily_summary whose last rule forgets the length test
is_daily_summary_LongLinkList(t) ==
    LET urls == telegram_url_count(t)
        short == is_short(t)
        dated == has_date_in_first_line(t)
        today == has_today_reference(t)
        script == has_script_pattern(t)
        emoji == has_daily_emoji(t)
    IN  \/ script /\ today /\ urls >= 1
        \/ emoji /\ today /\ urls >= 1 /\ short
        \/ today /\ urls >= 1 /\ short /\ ~dated
        \/ urls >= 2 /\ ~dated

is_daily_summary(t) ==
    LET urls == telegram_url_count(t)
        short == is_short(t)
        dated == has_date_in_first_line(t)
        today == has_today_reference(t)
        script == has_script_pattern(t)
        emoji == has_daily_emoji(t)
    IN  IF script /\ today /\ urls >= 1
        THEN TRUE
        ELSE IF emoji /\ today /\ urls >= 1 /\ short
        THEN TRUE
        ELSE IF today /\ urls >= 1 /\ short /\ ~dated
        THEN TRUE
        ELSE IF urls >= 2 /\ short /\ ~dated
        THEN TRUE
        ELSE FALSE

WEEK_ROLL_DAYS == 7

\* weekly_try without the month-transition step (lines 245-246 left out)
weekly_try_NoWrap(range_match, pd, today) ==
    LET p == strip_tz(pd)
        end0 == parse(range_match.d2, range_match.m2, p.year, today)
        start0 == parse(range_match.d1, range_match.m1, p.year, today)
    IN  IF end0 = ValueError \/ start0 = ValueError THEN ValueError
        ELSE IF timedelta_days(start0, p) < -WEEK_ROLL_DAYS
        THEN (IF replace_year(start0, p.year + 1) = ValueError
              THEN ValueError ELSE replace_year(end0, p.year + 1))
        ELSE end0

\* weekly_try rolling whenever the start is more than a week away from the
\* post, in either direction (abs(days_diff) > 7)
weekly_try_RollFarFuture(range_match, pd, today) ==
    LET p == strip_tz(pd)
        end0 == parse(range_match.d2, range_match.m2, p.year, today)
        start0 == parse(range_match.d1, range_match.m1, p.year, today)
    IN  IF end0 = ValueError \/ start0 = ValueError THEN ValueError
        ELSE
        LET roll == \/ timedelta_days(start0, p) < -WEEK_ROLL_DAYS
                    \/ timedelta_days(start0, p) > WEEK_ROLL_DAYS
            start1 == IF roll THEN replace_year(start0, p.year + 1) ELSE start0
            end1 == IF roll THEN replace_year(end0, p.year + 1) ELSE end0
        IN  IF start1 = ValueError \/ end1 = ValueError THEN ValueError
            ELSE IF datetime_lt(end1, start1)
            THEN replace_year(end1, start1.year + 1)
            ELSE end1

\* the body of the try block of extract_weekly_summary_date; ValueError when
\* a statement of it raises
weekly_try(range_match, pd, today) ==
    LET p == strip_tz(pd)
        end0 == parse(range_match.d2, range_match.m2, p.year, today)
        start0 == parse(range_match.d1, range_match.m1, p.year, today)
    IN  IF end0 = ValueError \/ start0 = ValueError THEN ValueError
        ELSE
        LET roll == timedelta_days(start0, p) < -WEEK_ROLL_DAYS
            start1 == IF roll THEN replace_year(start0, p.year + 1) ELSE start0
            end1 == IF roll THEN replace_year(end0, p.year + 1) ELSE end0
        IN  IF start1 = ValueError \/ end1 = ValueError THEN ValueError
            ELSE IF datetime_lt(end1, start1)
            THEN replace_year(end1, start1.year + 1)
            ELSE end1

extract_weekly_summary_date(t, pd, today) ==
    LET range_match == range_search(t)
    IN  IF range_match = None THEN None
        ELSE LET r == weekly_try(range_match, pd, today)
             IN  IF r = ValueError THEN None ELSE r

\* regular_try rolling the year on equality too (<= for <)
regular_try_RollOnEqual(match, pd, today) ==
    LET p == strip_tz(pd)
        event_date == parse(match.day, match.month, p.year, today)
    IN  IF event_date = ValueError THEN ValueError
        ELSE IF \/ event_date.month < p.month
                \/ event_date.month = p.month /\ event_date.day <= p.day
        THEN replace_year(event_date, p.year + 1)
        ELSE event_date

\* the body of the try block of extract_regular_event_date
regular_try(match, pd, today) ==
    LET p == strip_tz(pd)
        event_date == parse(match.day, match.month, p.year, today)
    IN  IF event_date = ValueError THEN ValueError
        ELSE IF \/ event_date.month < p.month
                \/ event_date.month = p.month /\ event_date.day < p.day
        THEN replace_year(event_date, p.year + 1)
        ELSE event_date

\* extract_regular_event_date searching the whole text, not the first line
extract_regular_event_date_AnyLine(t, pd, today) ==
    LET match == date_search(Flatten(t))
    IN  IF match = None THEN None
        ELSE LET r == regular_try(match, pd, today)
             IN  IF r = ValueError THEN None ELSE r

extract_regular_event_date(t, pd, today) ==
    LET match == date_search(first_line(t))
    IN  IF match = None THEN None
        ELSE LET r == regular_try(match, pd, today)
             IN  IF r = ValueError THEN None ELSE r

\* extract_event_date returning post_date as it came, timezone included
extract_event_date_KeepTz(t, pd, today) ==
    LET date == IF is_weekly_summary(t)
                THEN extract_weekly_summary_date(t, pd, today)
                ELSE None
    IN  IF date # None
        THEN date
        ELSE IF is_daily_summary(t)
        THEN pd
        ELSE extract_regular_event_date(t, pd, today)

extract_event_date(t, pd, today) ==
    LET date == IF is_weekly_summary(t)
                THEN extract_weekly_summary_date(t, pd, today)
                ELSE None
    IN  IF date # None
        THEN date
        ELSE IF is_daily_summary(t)
        THEN strip_tz(pd)
        ELSE extract_regular_event_date(t, pd, today)

(***************************************************************************)
(* Inputs: the messages and clocks the functions are applied to            *)
(***************************************************************************)
MaxLinks == 2      \* most "t.me/" links in a generated text

MaxTitleWords == 1 \* most plain words before the date token of a first line

\* literal pieces of text that carry a classification signal, in print order
SignalWords ==
    << Word(CALENDAR), Word("This Week"), Word(BULLET), Word(":bullet: **"),
       Word("Tonight"), Word(":sparkles:") >>

Subsequence(seq, S) == SelectSeq(seq, LAMBDA w : w \in S)

RECURSIVE Repeat(_, _)
Repeat(x, n) == IF n <= 0 THEN <<>> ELSE <<x>> \o Repeat(x, n - 1)

\* one token per line
Lines(toks) == [i \in 1..Len(toks) |-> <<toks[i]>>]

\* a text: its first line, then the body tokens and the links on lines of
\* their own, then empty lines up to `upto` lines in all
MkText(first, body, links, upto) ==
    LET base == <<first>> \o Lines(body) \o Lines(Repeat(Word("t.me/"), links))
    IN  base \o Repeat(<<>>, upto - Len(base))

Titles == UNION {[1..n -> {Word("Party")}] : n \in 0..MaxTitleWords}

\* posts whose classification signals vary
SignalFirstLines ==
    {<<>>, <<DateTok(10, "PM")>>}
    \cup {ti \o <<DateTok(6, "SEP")>> : ti \in Titles}

SignalRanges ==
    {<<>>, <<RangeTok(4, "AUG", 10, "AUG")>>, <<RangeTok(4, "aug", 10, "aug")>>,
     <<RangeTok(28, "FEB", 31, "FEB")>>}

SignalPostDate == datetime(2024, 8, 4, 12, TRUE)

\* posts whose dates vary
Days == {0, 1, 5, 6, 15, 28, 29, 31, 35}

MonthWords == {"JAN", "FEB", "MAR", "SEP", "sep", "Sep", "SEPTEMBER", "DEC",
               "FOO", "MAI", "PM", "and"}

DateFirstLines ==
    {<<DateTok(d, m)>> : d \in Days, m \in MonthWords}
    \cup {<<Word("Party")>>}

RangeEnds ==
    {<<4, "AUG">>, <<10, "AUG">>, <<28, "DEC">>, <<3, "JAN">>, <<20, "DEC">>,
     <<26, "DEC">>, <<29, "FEB">>, <<30, "FEB">>, <<1, "MAR">>}

Years == {2023, 2024}

MonthDays == {<<1, 5>>, <<2, 29>>, <<3, 10>>, <<8, 4>>, <<8, 11>>, <<9, 6>>,
              <<11, 10>>, <<12, 30>>}

PostDates ==
    {p \in {datetime(y, md[1], md[2], hz[1], hz[2]) :
                y \in Years, md \in MonthDays, hz \in {<<0, FALSE>>, <<12, TRUE>>}} :
        valid_ymd(p.year, p.month, p.day)}

Todays == {datetime(2026, 11, 5, 0, FALSE), datetime(2027, 1, 31, 0, FALSE)}

(***************************************************************************)
(* The specification: a message is drawn and one function is applied       *)
(***************************************************************************)
Fresh ==
    /\ called = "none"
    /\ ret_bool = FALSE
    /\ ret_date = None

InitSignals ==
    \E f \in SignalFirstLines, r \in SignalRanges,
       S \in SUBSET {SignalWords[i] : i \in 1..Len(SignalWords)},
       n \in 0..MaxLinks, upto \in {0, SHORT_MAX_LINES, SHORT_MAX_LINES + 1} :
        /\ text = MkText(f, r \o Subsequence(SignalWords, S), n, upto)
        /\ post_date = SignalPostDate
        /\ now = datetime(2026, 11, 5, 0, FALSE)

InitDates ==
    \E f \in DateFirstLines, b \in {<<>>, <<DateTok(15, "JAN")>>},
       p \in PostDates, n \in Todays :
        /\ b # <<>> => f \in {<<Word("Party")>>, <<DateTok(15, "FOO")>>}
        /\ n # datetime(2026, 11, 5, 0, FALSE) => is_jump(f[1].m1)
        /\ text = MkText(f, b, 0, 0)
        /\ post_date = p
        /\ now = n

InitRanges ==
    \E s \in RangeEnds, e \in RangeEnds, p \in PostDates :
        /\ text = MkText(<<Word(CALENDAR), Word("This Week")>>,
                         <<RangeTok(s[1], s[2], e[1], e[2]), Word(BULLET)>>, 0, 0)
        /\ post_date = p
        /\ now = datetime(2026, 11, 5, 0, FALSE)

\* no second application yet
RepeatIdle ==
    /\ again = FALSE
    /\ prev_bool = FALSE
    /\ prev_date = None

\* no cleanup run
ScanIdle ==
    /\ args = [live |-> FALSE, test |-> FALSE, dry_run |-> FALSE]
    /\ pc = "idle"
    /\ dry_run = FALSE
    /\ auto_confirm = FALSE
    /\ messages = <<>>
    /\ scan_pos = 1
    /\ events = <<>>
    /\ counts = None
    /\ prompted = FALSE
    /\ confirm = ""
    /\ to_delete = {}
    /\ delete_called = {}
    /\ deleted_count = 0

\* no scheduler run
SchedIdle ==
    /\ notion_db = <<>>
    /\ s_pc = "idle"
    /\ s_dry_run = FALSE
    /\ single_mode = FALSE
    /\ channels = <<>>
    /\ max_scheduled = 0
    /\ scheduled_count = 0
    /\ events_remaining = <<>>
    /\ day_offset = 0
    /\ windows_left = 0
    /\ daily_limit = 0
    /\ daily_posted = 0
    /\ scheduled_posts = <<>>
    /\ sent_once = {}
    /\ sent_again = FALSE
    /\ state_saved = FALSE
    /\ last_call = None

\* no updater run
SyncIdle ==
    /\ u_pc = "idle"
    /\ u_test_mode = FALSE
    /\ u_events = <<>>
    /\ u_pos = 1
    /\ msg_cache = <<>>
    /\ telegram_texts = <<>>
    /\ edit_called = {}
    /\ timestamp_updated = {}
    /\ cache_saved = FALSE

\* no linker run
LinkIdle ==
    /\ l_pc = "idle"
    /\ l_test_mode = FALSE
    /\ l_channel = "live"
    /\ do_full_scan = FALSE
    /\ tg_channels = [live |-> <<>>, test |-> <<>>]
    /\ notion_ids = [live |-> 0, test |-> 0]
    /\ link_cache = [live |-> {}, test |-> {}]
    /\ last_full_scan = None
    /\ cache_file = [live |-> {}, test |-> {}, last_full_scan |-> None]
    /\ cache_written = FALSE
    /\ existing_message_ids = {}
    /\ telegram_events = <<>>
    /\ notion_events = {}
    /\ notion_updates = {}
    /\ newly_linked = [live |-> 0, test |-> 0]

Init ==
    /\ InitSignals \/ InitDates \/ InitRanges
    /\ Fresh
    /\ RepeatIdle
    /\ ScanIdle
    /\ SchedIdle
    /\ SyncIdle
    /\ LinkIdle

IsWeeklySummary ==
    /\ called = "none"
    /\ called' = "is_weekly_summary"
    /\ ret_bool' = is_weekly_summary(text)
    /\ UNCHANGED <<text, post_date, now, ret_date, otherVars>>

IsDailySummary ==
    /\ called = "none"
    /\ called' = "is_daily_summary"
    /\ ret_bool' = is_daily_summary(text)
    /\ UNCHANGED <<text, post_date, now, ret_date, otherVars>>

ExtractWeeklySummaryDate ==
    /\ called = "none"
    /\ called' = "extract_weekly_summary_date"
    /\ ret_date' = extract_weekly_summary_date(text, post_date, now)
    /\ UNCHANGED <<text, post_date, now, ret_bool, otherVars>>

ExtractRegularEventDate ==
    /\ called = "none"
    /\ called' = "extract_regular_event_date"
    /\ ret_date' = extract_regular_event_date(text, post_date, now)
    /\ UNCHANGED <<text, post_date, now, ret_bool, otherVars>>

ExtractEventDate ==
    /\ called = "none"
    /\ called' = "extract_event_date"
    /\ ret_date' = extract_event_date(text, post_date, now)
    /\ UNCHANGED <<text, post_date, now, ret_bool, otherVars>>

Next ==
    \/ IsWeeklySummary
    \/ IsDailySummary
    \/ ExtractWeeklySummaryDate
    \/ ExtractRegularEventDate
    \/ ExtractEventDate

Spec == Init /\ [][Next]_vars

(***************************************************************************)
(* The same function applied twice to one message, at two wall-clock times *)
(***************************************************************************)
\* the wall clock moves on between the two applications
Tick ==
    /\ called # "none"
    /\ ~again
    /\ now' \in Todays \ {now}
    /\ UNCHANGED <<text, post_date, called, ret_bool, ret_date, otherVars>>

\* the value the function named f returns for (t, pd) when the clock reads today
returns_bool(f, t) ==
    CASE f = "is_weekly_summary" -> is_weekly_summary(t)
      [] f = "is_daily_summary" -> is_daily_summary(t)
      [] OTHER -> FALSE

returns_date(f, t, pd, today) ==
    CASE f = "extract_weekly_summary_date" -> extract_weekly_summary_date(t, pd, today)
      [] f = "extract_regular_event_date" -> extract_regular_event_date(t, pd, today)
      [] f = "extract_event_date" -> extract_event_date(t, pd, today)
      [] OTHER -> None

CallAgain ==
    /\ called # "none"
    /\ ~again
    /\ again' = TRUE
    /\ prev_bool' = ret_bool
    /\ prev_date' = ret_date
    /\ ret_bool' = returns_bool(called, text)
    /\ ret_date' = returns_date(called, text, post_date, now)
    /\ UNCHANGED <<text, post_date, now, called, scanVars, schedVars, syncVars, linkVars>>

NextRepeat ==
    \/ IsWeeklySummary
    \/ IsDailySummary
    \/ ExtractWeeklySummaryDate
    \/ ExtractRegularEventDate
    \/ ExtractEventDate
    \/ Tick
    \/ CallAgain

SpecRepeat == Init /\ [][NextRepeat]_vars

(***************************************************************************)
(* The cleanup run: main and scan_and_clean_channel                        *)
(***************************************************************************)
\* event_date.date(), today.date(), strftime('%Y-%m-%d'): the time is dropped
date(dt) == <<dt.year, dt.month, dt.day>>

date_lt(a, b) ==
    \/ a[1] < b[1]
    \/ a[1] = b[1] /\ a[2] < b[2]
    \/ a[1] = b[1] /\ a[2] = b[2] /\ a[3] < b[3]

\* message.text of a message without text (None): a text of no lines at all
NoText == <<>>

\* a status that counts today as past
status_TodayIsPast(event_date, today) ==
    IF ~date_lt(date(today), date(event_date)) THEN "Past" ELSE "Future"

\* 'Past' if event_date.date() < today.date() else 'Future'
status(event_date, today) ==
    IF date_lt(date(event_date), date(today)) THEN "Past" ELSE "Future"

\* not message.text: no text at all, or the empty string
no_text(t) == t = NoText \/ t = <<<<>>>>

\* one iteration of the loop over the channel's messages: the event list
\* after the message has been examined
scan_message_KeepUnresolved(message, evs, today) ==
    IF no_text(message.text) THEN evs
    ELSE LET event_date == extract_event_date(message.text, message.date, today)
         IN  Append(evs,
                [event_date |-> IF event_date = None THEN <<0, 0, 0>> ELSE date(event_date),
                 status |-> IF event_date = None THEN "Past" ELSE status(event_date, today),
                 message_id |-> message.id,
                 is_weekly_summary |-> is_weekly_summary(message.text),
                 is_daily_summary |-> is_daily_summary(message.text),
                 is_summary |-> is_weekly_summary(message.text)
                                \/ is_daily_summary(message.text)])

scan_message(message, evs, today) ==
    IF no_text(message.text) THEN evs
    ELSE LET is_weekly == is_weekly_summary(message.text)
             is_daily == is_daily_summary(message.text)
             event_date == extract_event_date(message.text, message.date, today)
         IN  IF event_date = None THEN evs
             ELSE Append(evs,
                    [event_date |-> date(event_date),
                     status |-> status(event_date, today),
                     message_id |-> message.id,
                     is_weekly_summary |-> is_weekly,
                     is_daily_summary |-> is_daily,
                     is_summary |-> is_weekly \/ is_daily])

\* df[df['status'] == 'Past']
past_df(evs) == {evs[i] : i \in {j \in 1..Len(evs) : evs[j].status = "Past"}}

\* len(df[...]) for the three counts of the summary
count_by_type(evs) ==
    [regular |-> Cardinality({i \in 1..Len(evs) : ~evs[i].is_summary}),
     weekly |-> Cardinality({i \in 1..Len(evs) : evs[i].is_weekly_summary}),
     daily |-> Cardinality({i \in 1..Len(evs) : evs[i].is_daily_summary})]

\* what scan_and_clean_channel does with a non-empty past_df
deletion_step_AutoConfirmFirst(dry, auto) ==
    IF auto THEN "delete" ELSE IF dry THEN "done" ELSE "prompt"

deletion_step(dry, auto) ==
    IF dry THEN "done" ELSE IF auto THEN "delete" ELSE "prompt"

\* main(): the channel is chosen from the flags or asked for, and
\* scan_and_clean_channel is started with auto_confirm = args.live
Main ==
    /\ pc = "main"
    /\ \E environment \in {"live", "test"}, sure \in {"yes", "no"} :
          IF ~args.live /\ ~args.test /\ environment = "live" /\ sure # "yes"
          THEN /\ pc' = "done"
               /\ UNCHANGED <<dry_run, auto_confirm>>
          ELSE /\ pc' = "scan"
               /\ dry_run' = args.dry_run
               /\ auto_confirm' = args.live
    /\ UNCHANGED <<args, messages, scan_pos, events, counts, prompted, confirm,
                   to_delete, delete_called, deleted_count>>
    /\ UNCHANGED <<text, post_date, now, called, ret_bool, ret_date, repeatVars, schedVars, syncVars, linkVars>>

\* the body of "async for message in client.iter_messages(channel_name)"
ScanMessage ==
    /\ pc = "scan"
    /\ scan_pos <= Len(messages)
    /\ events' = scan_message(messages[scan_pos], events, now)
    /\ scan_pos' = scan_pos + 1
    /\ UNCHANGED <<args, pc, dry_run, auto_confirm, messages, counts, prompted,
                   confirm, to_delete, delete_called, deleted_count>>
    /\ UNCHANGED <<text, post_date, now, called, ret_bool, ret_date, repeatVars, schedVars, syncVars, linkVars>>

\* after the loop: the summary, the two tables and the decision to delete
Report ==
    /\ pc = "scan"
    /\ scan_pos > Len(messages)
    /\ IF events = <<>>
       THEN /\ pc' = "done"
            /\ UNCHANGED <<counts, confirm, to_delete>>
       ELSE /\ counts' = count_by_type(events)
            /\ IF past_df(events) = {}
               THEN /\ pc' = "done"
                    /\ UNCHANGED <<confirm, to_delete>>
               ELSE /\ pc' = deletion_step(dry_run, auto_confirm)
                    /\ confirm' = IF pc' = "delete" THEN "yes" ELSE confirm
                    /\ to_delete' = IF pc' = "done" THEN {} ELSE past_df(events)
    /\ UNCHANGED <<args, dry_run, auto_confirm, messages, scan_pos, events, prompted,
                   delete_called, deleted_count>>
    /\ UNCHANGED <<text, post_date, now, called, ret_bool, ret_date, repeatVars, schedVars, syncVars, linkVars>>

\* confirm = input(...).strip().lower(), then the test of the answer
AnswerPrompt ==
    /\ pc = "prompt"
    /\ \E answer \in {"yes", "y", "no", ""} :
          /\ confirm' = answer
          /\ pc' = IF answer \in {"yes", "y"} THEN "delete" ELSE "done"
          /\ to_delete' = IF answer \in {"yes", "y"} THEN to_delete ELSE {}
    /\ prompted' = TRUE
    /\ UNCHANGED <<args, dry_run, auto_confirm, messages, scan_pos, events, counts,
                   delete_called, deleted_count>>
    /\ UNCHANGED <<text, post_date, now, called, ret_bool, ret_date, repeatVars, schedVars, syncVars, linkVars>>

\* one iteration of "for message_id in past_df['message_id']" (past_df is
\* sorted by event_date, latest first); delete_messages may raise
DeleteMessage ==
    /\ pc = "delete"
    /\ to_delete # {}
    /\ \E e \in to_delete, ok \in BOOLEAN :
          /\ \A o \in to_delete : ~date_lt(e.event_date, o.event_date)
          /\ to_delete' = to_delete \ {e}
          /\ delete_called' = delete_called \cup {e.message_id}
          /\ deleted_count' = IF ok THEN deleted_count + 1 ELSE deleted_count
    /\ UNCHANGED <<args, pc, dry_run, auto_confirm, messages, scan_pos, events, counts,
                   prompted, confirm>>
    /\ UNCHANGED <<text, post_date, now, called, ret_bool, ret_date, repeatVars, schedVars, syncVars, linkVars>>

\* the loop over past_df is exhausted
DeletionComplete ==
    /\ pc = "delete"
    /\ to_delete = {}
    /\ pc' = "done"
    /\ UNCHANGED <<args, dry_run, auto_confirm, messages, scan_pos, events, counts,
                   prompted, confirm, to_delete, delete_called, deleted_count>>
    /\ UNCHANGED <<text, post_date, now, called, ret_bool, ret_date, repeatVars, schedVars, syncVars, linkVars>>

\* channel contents
MaxMessages == 2

ChannelPostDate == datetime(2024, 8, 4, 12, TRUE)

ChannelTexts ==
    {NoText,
     MkText(<<>>, <<>>, 0, 0),
     MkText(<<Word("Party")>>, <<>>, 0, 0),
     MkText(<<DateTok(6, "SEP")>>, <<>>, 0, 0),
     MkText(<<Word(CALENDAR), Word("This Week")>>,
            <<RangeTok(4, "AUG", 10, "AUG"), Word(BULLET)>>, 0, 0),
     MkText(<<>>, <<RangeTok(4, "AUG", 10, "AUG"), Word(":bullet: **"), Word("Tonight")>>, 1, 0),
     MkText(<<>>, <<Word(":bullet: **"), Word("Tonight")>>, 1, 0),
     MkText(<<DateTok(6, "SEP")>>, <<RangeTok(28, "FEB", 31, "FEB"), Word(BULLET)>>, 0, 0)}

\* iter_messages yields the newest message first: ids descend
Channels ==
    UNION {{[i \in 1..n |-> [id |-> n + 1 - i, text |-> f[i], date |-> ChannelPostDate]] :
                f \in [1..n -> ChannelTexts]} : n \in 0..MaxMessages}

ScanTodays ==
    {datetime(2024, 8, 4, 9, FALSE), datetime(2024, 8, 5, 9, FALSE),
     datetime(2024, 8, 10, 9, FALSE), datetime(2024, 8, 11, 9, FALSE),
     datetime(2024, 9, 6, 9, FALSE), datetime(2024, 9, 7, 9, FALSE)}

InitScan ==
    /\ text = MkText(<<>>, <<>>, 0, 0)
    /\ post_date = ChannelPostDate
    /\ now \in ScanTodays
    /\ Fresh
    /\ RepeatIdle
    /\ args \in {a \in [live : BOOLEAN, test : BOOLEAN, dry_run : BOOLEAN] :
                    ~(a.live /\ a.test)}
    /\ pc = "main"
    /\ dry_run = FALSE
    /\ auto_confirm = FALSE
    /\ messages \in Channels
    /\ scan_pos = 1
    /\ events = <<>>
    /\ counts = None
    /\ prompted = FALSE
    /\ confirm = ""
    /\ to_delete = {}
    /\ delete_called = {}
    /\ deleted_count = 0
    /\ SchedIdle
    /\ SyncIdle
    /\ LinkIdle

NextScan ==
    \/ Main
    \/ ScanMessage
    \/ Report
    \/ AnswerPrompt
    \/ DeleteMessage
    \/ DeletionComplete

SpecScan == InitScan /\ [][NextScan]_vars

(***************************************************************************)
(* The scheduler: src/telegram_new_events_auto_scheduler/                  *)
(*     telegram_event_scheduler.py                                         *)
(*                                                                         *)
(* A Notion page is [ready, published, urgency]: ready is the tag          *)
(* 'readyfortg', published the checkbox published_on_telegram.  Events are  *)
(* named by their page ids; the order of the ids is the order of           *)
(* (priority != 1, date).  Posting times are left out.                     *)
(***************************************************************************)
\* fetch_ready_events: the pages tagged readyfortg that are not published,
\* sorted
RECURSIVE fetch_from(_, _)
fetch_from(db, i) ==
    IF i > Len(db) THEN <<>>
    ELSE IF db[i].ready /\ ~db[i].published
         THEN <<i>> \o fetch_from(db, i + 1)
         ELSE fetch_from(db, i + 1)

fetch_ready_events(db) == fetch_from(db, 1)

\* count_scheduled_events: the pages whose telegram_scheduled_at is set, which
\* update_notion_after_scheduling sets together with the checkbox
count_scheduled_events(db) == Cardinality({i \in 1..Len(db) : db[i].published})

\* update_notion_after_scheduling: the checkbox is set and the tag readyfortg
\* is replaced by postedontg
update_notion_after_scheduling(db, event_id) ==
    [db EXCEPT ![event_id].published = TRUE, ![event_id].ready = FALSE]

\* len([e for e in events_remaining if calculate_urgency(e['date']) in
\* ['today', 'this_week']])
urgent_count(db, evs) ==
    Cardinality({i \in 1..Len(evs) : db[evs[i]].urgency # "future"})

calculate_daily_limit(total_events, has_urgent) ==
    IF has_urgent THEN 10
    ELSE IF total_events < 10 THEN 2
    ELSE IF total_events < 25 THEN 3
    ELSE IF total_events < 50 THEN 5
    ELSE 7

\* should_skip_today can return True (random.random() < 0.2)
may_skip_today(remaining, urgent) == urgent = 0 /\ remaining >= 5

\* events[:n]
take(evs, n) == SubSeq(evs, 1, IF n < Len(evs) THEN n ELSE Len(evs))

\* seq with its first occurrence of x removed (list.remove)
RECURSIVE remove(_, _)
remove(evs, x) ==
    IF evs = <<>> THEN <<>>
    ELSE IF Head(evs) = x THEN Tail(evs)
    ELSE <<Head(evs)>> \o remove(Tail(evs), x)

\* [e for e in events if ...]
RECURSIVE select_urgency(_, _, _)
select_urgency(db, evs, u) ==
    IF evs = <<>> THEN <<>>
    ELSE IF db[Head(evs)].urgency = u
         THEN <<Head(evs)>> \o select_urgency(db, Tail(evs), u)
         ELSE select_urgency(db, Tail(evs), u)

\* the order in which generate_human_posting_times places the events of a
\* window: today's, this week's, then the others
posting_order(db, evs) ==
    select_urgency(db, evs, "today") \o select_urgency(db, evs, "this_week")
    \o select_urgency(db, evs, "future")

\* schedule_single_event: what it does, given how the image download, each
\* send_file and the Notion update turn out
schedule_single_event_UpdateAlways(dry, img_ok, ok_channels, notion_ok) ==
    IF dry
    THEN [image |-> "none", sent |-> {}, notion_called |-> FALSE,
          notion_updated |-> FALSE, ret |-> TRUE]
    ELSE IF ~img_ok
    THEN [image |-> "failed", sent |-> {}, notion_called |-> FALSE,
          notion_updated |-> FALSE, ret |-> FALSE]
    ELSE [image |-> "ok", sent |-> ok_channels, notion_called |-> TRUE,
          notion_updated |-> notion_ok, ret |-> notion_ok]

schedule_single_event(dry, img_ok, ok_channels, notion_ok) ==
    IF dry
    THEN [image |-> "none", sent |-> {}, notion_called |-> FALSE,
          notion_updated |-> FALSE, ret |-> TRUE]
    ELSE IF ~img_ok
    THEN [image |-> "failed", sent |-> {}, notion_called |-> FALSE,
          notion_updated |-> FALSE, ret |-> FALSE]
    ELSE IF ok_channels # {}
    THEN [image |-> "ok", sent |-> ok_channels, notion_called |-> TRUE,
          notion_updated |-> notion_ok, ret |-> notion_ok]
    ELSE [image |-> "ok", sent |-> {}, notion_called |-> FALSE,
          notion_updated |-> FALSE, ret |-> FALSE]

\* how the calls made by one schedule_single_event can turn out: the image
\* download, send_file per channel (attempted after a download), the Notion
\* update (attempted after a successful send_file)
Outcomes(dry, chs) ==
    {o \in [img_ok : BOOLEAN, ok_channels : SUBSET {chs[i] : i \in 1..Len(chs)},
            notion_ok : BOOLEAN] :
        /\ dry => ~o.img_ok
        /\ ~o.img_ok => o.ok_channels = {}
        /\ o.ok_channels = {} => ~o.notion_ok}

DAY_OFFSET_LIMIT == 7

\* days of the scheduling loop that are followed
FollowedDays == {0}

\* schedule_all_events up to the scheduling loop: the fetch, the selection of
\* single mode and the check of the limit
FetchEvents ==
    /\ s_pc = "start"
    /\ LET fetched == fetch_ready_events(notion_db)
       IN  \E choice \in 0..(Len(fetched) + 1) :
             LET chosen == IF single_mode THEN <<fetched[choice]>> ELSE fetched
             IN  IF fetched = <<>> \/ (single_mode /\ choice \notin 1..Len(fetched))
                 THEN /\ s_pc' = "done"
                      /\ UNCHANGED <<events_remaining, scheduled_count>>
                 ELSE /\ scheduled_count' = count_scheduled_events(notion_db)
                      /\ IF scheduled_count' >= max_scheduled
                         THEN /\ s_pc' = "done"
                              /\ UNCHANGED events_remaining
                         ELSE /\ s_pc' = "day"
                              /\ events_remaining' = chosen
    /\ UNCHANGED <<notion_db, s_dry_run, single_mode, channels, max_scheduled,
                   day_offset, windows_left, daily_limit, daily_posted,
                   scheduled_posts, sent_once, sent_again, state_saved, last_call>>
    /\ UNCHANGED <<text, post_date, now, called, ret_bool, ret_date, repeatVars, scanVars, syncVars, linkVars>>

\* the head of "while events_remaining and scheduled_count < MAX_SCHEDULED":
\* the day is skipped, or its windows and daily limit are computed
StartDay ==
    /\ s_pc = "day"
    /\ IF events_remaining = <<>> \/ scheduled_count >= max_scheduled
       THEN /\ s_pc' = "done"
            /\ UNCHANGED <<day_offset, windows_left, daily_limit, daily_posted>>
       ELSE LET urgent == urgent_count(notion_db, events_remaining)
            IN  \/ /\ may_skip_today(Len(events_remaining), urgent)
                   /\ day_offset > 0
                   /\ day_offset' = day_offset + 1
                   /\ UNCHANGED <<s_pc, windows_left, daily_limit, daily_posted>>
                \/ /\ day_offset \in FollowedDays
                   /\ \E n \in 0..3 :
                        /\ day_offset > 0 => n >= 2
                        /\ windows_left' = n
                   /\ daily_limit' = calculate_daily_limit(Len(events_remaining), urgent > 0)
                   /\ daily_posted' = 0
                   /\ s_pc' = "window"
                   /\ UNCHANGED day_offset
    /\ UNCHANGED <<notion_db, s_dry_run, single_mode, channels, max_scheduled,
                   scheduled_count, events_remaining, scheduled_posts, sent_once,
                   sent_again, state_saved, last_call>>
    /\ UNCHANGED <<text, post_date, now, called, ret_bool, ret_date, repeatVars, scanVars, syncVars, linkVars>>

\* one iteration of "for window_name, window_start, window_end in windows",
\* up to the posting times of the window
StartWindow ==
    /\ s_pc = "window"
    /\ windows_left > 0
    /\ events_remaining # <<>>
    /\ daily_posted < daily_limit
    /\ LET window_events == take(events_remaining, daily_limit - daily_posted)
       IN  \E k \in 0..Len(window_events) :
             /\ scheduled_posts' = take(posting_order(notion_db, window_events), k)
             /\ s_pc' = IF k = 0 THEN "window" ELSE "posts"
    /\ windows_left' = windows_left - 1
    /\ UNCHANGED <<notion_db, s_dry_run, single_mode, channels, max_scheduled,
                   scheduled_count, events_remaining, day_offset, daily_limit,
                   daily_posted, sent_once, sent_again, state_saved, last_call>>
    /\ UNCHANGED <<text, post_date, now, called, ret_bool, ret_date, repeatVars, scanVars, syncVars, linkVars>>

\* one iteration of "for event, scheduled_time in scheduled_posts": the
\* check of the limit, schedule_single_event and the bookkeeping
SchedulePost ==
    /\ s_pc = "posts"
    /\ scheduled_posts # <<>>
    /\ LET event == Head(scheduled_posts)
       IN  IF scheduled_count >= max_scheduled
           THEN /\ state_saved' = TRUE
                /\ s_pc' = "done"
                /\ UNCHANGED <<notion_db, scheduled_count, events_remaining, daily_posted,
                               scheduled_posts, sent_once, sent_again, last_call>>
           ELSE \E o \in Outcomes(s_dry_run, channels) :
                  LET r == schedule_single_event(s_dry_run, o.img_ok, o.ok_channels,
                                                 o.notion_ok)
                      pairs == {<<event, c>> : c \in r.sent}
                  IN  /\ sent_once' = sent_once \cup pairs
                      /\ sent_again' = (sent_again \/ sent_once \cap pairs # {})
                      /\ notion_db' = IF r.notion_updated
                                      THEN update_notion_after_scheduling(notion_db, event)
                                      ELSE notion_db
                      /\ last_call' = [image |-> r.image,
                                       sent |-> r.sent,
                                       notion_called |-> r.notion_called,
                                       notion_changed |-> notion_db' # notion_db,
                                       ret |-> r.ret]
                      /\ scheduled_count' = IF r.ret THEN scheduled_count + 1
                                            ELSE scheduled_count
                      /\ daily_posted' = IF r.ret THEN daily_posted + 1 ELSE daily_posted
                      /\ events_remaining' = IF r.ret THEN remove(events_remaining, event)
                                             ELSE events_remaining
                      /\ state_saved' = (state_saved \/ (r.ret /\ ~s_dry_run))
                      /\ scheduled_posts' = Tail(scheduled_posts)
                      /\ s_pc' = IF Tail(scheduled_posts) = <<>> THEN "window" ELSE "posts"
    /\ UNCHANGED <<s_dry_run, single_mode, channels, max_scheduled, day_offset,
                   windows_left, daily_limit>>
    /\ UNCHANGED <<text, post_date, now, called, ret_bool, ret_date, repeatVars, scanVars, syncVars, linkVars>>

\* the end of the loop over the windows of a day
EndDay ==
    /\ s_pc = "window"
    /\ windows_left = 0 \/ events_remaining = <<>> \/ daily_posted >= daily_limit
    /\ day_offset' = day_offset + 1
    /\ s_pc' = IF day_offset' > DAY_OFFSET_LIMIT THEN "done" ELSE "day"
    /\ UNCHANGED <<notion_db, s_dry_run, single_mode, channels, max_scheduled,
                   scheduled_count, events_remaining, windows_left, daily_limit,
                   daily_posted, scheduled_posts, sent_once, sent_again, state_saved,
                   last_call>>
    /\ UNCHANGED <<text, post_date, now, called, ret_bool, ret_date, repeatVars, scanVars, syncVars, linkVars>>

\* the Notion database and the parameters of a run
MaxEvents == 2

NotionPages ==
    {[ready |-> TRUE, published |-> FALSE, urgency |-> "future"],
     [ready |-> TRUE, published |-> FALSE, urgency |-> "today"],
     [ready |-> TRUE, published |-> TRUE, urgency |-> "future"],
     [ready |-> FALSE, published |-> FALSE, urgency |-> "future"]}

InitSched ==
    /\ text = MkText(<<>>, <<>>, 0, 0)
    /\ post_date = ChannelPostDate
    /\ now = datetime(2024, 8, 4, 9, FALSE)
    /\ Fresh
    /\ RepeatIdle
    /\ ScanIdle
    /\ notion_db \in UNION {[1..n -> NotionPages] : n \in 0..MaxEvents}
    /\ s_pc = "start"
    /\ s_dry_run \in BOOLEAN
    /\ single_mode \in BOOLEAN
    /\ channels \in {<<"live", "test">>, <<"test">>}
    /\ max_scheduled \in 1..MaxEvents
    /\ scheduled_count = 0
    /\ events_remaining = <<>>
    /\ day_offset = 0
    /\ windows_left = 0
    /\ daily_limit = 0
    /\ daily_posted = 0
    /\ scheduled_posts = <<>>
    /\ sent_once = {}
    /\ sent_again = FALSE
    /\ state_saved = FALSE
    /\ last_call = None
    /\ SyncIdle
    /\ LinkIdle

NextSched ==
    \/ FetchEvents
    \/ StartDay
    \/ StartWindow
    \/ SchedulePost
    \/ EndDay

SpecSched == InitSched /\ [][NextSched]_vars

(***************************************************************************)
(* Part 4: the updater of                                                  *)
(* src/telegram_message_auto_update/                                       *)
(*     notion_to_telegram_message_update_new_info.py                       *)
(*                                                                         *)
(* A message text is [bold, body]: bold is "html" for "<b>..</b>" and      *)
(* "md" for "**..**"; body stands for everything else.  A Notion date      *)
(* string is [iso |-> n]; a parsed datetime is [t |-> n].                  *)
(***************************************************************************)

parse_notion_date(date_str) ==
    IF date_str = None THEN None ELSE [t |-> date_str.iso]

build_message_text(event) == [bold |-> "html", body |-> event.title]

\* re.sub(r'\*\*([^*]+)\*\*', r'<b>\1</b>', text.strip())
normalize_for_comparison(t) == [t EXCEPT !.bold = "html"]

cache_get(cache, message_id) == cache[message_id]

check_needs_update(event, cache) ==
    LET cached_msg == cache_get(cache, event.telegram_message_id)
        last_edited == parse_notion_date(event.last_edited_time)
        timestamp_telegram == parse_notion_date(event.timestamp_telegram)
    IN  IF cached_msg = None
          THEN [needs |-> TRUE, reason |-> "Not in cache (rebuilding)"]
        ELSE IF last_edited = None
          THEN [needs |-> FALSE, reason |-> "No last_edited_time"]
        ELSE IF timestamp_telegram = None
          THEN [needs |-> TRUE, reason |-> "Never synced to Telegram"]
        ELSE IF last_edited.t <= timestamp_telegram.t
          THEN [needs |-> FALSE, reason |-> "No changes since last sync"]
        ELSE IF cached_msg.text # build_message_text(event)
          THEN [needs |-> TRUE, reason |-> "Message content changed"]
        ELSE IF event.image_url # cached_msg.image_url
          THEN [needs |-> TRUE, reason |-> "Image URL changed"]
        ELSE [needs |-> FALSE, reason |-> "No changes detected"]

\* the cache entry sync_events stores for an event
cached(event) == [text |-> build_message_text(event), image_url |-> event.image_url]

\* One pass of the loop body of sync_events for one event.  edit is what
\* update_telegram_message meets: "no_entity" (get_entity raises, edit_message
\* is not reached), or the outcome of client.edit_message: "ok", "failed"
\* (an exception update_telegram_message swallows) or "not_modified".
\* The value tells whether edit_message was called, whether the cache entry
\* was replaced and whether update_notion_timestamp was called.
sync_one(event, cache, test_mode, current_text, edit) ==
    LET c == check_needs_update(event, cache)
        new_text == build_message_text(event)
        quiet == [edited |-> FALSE, cache_update |-> FALSE, notion |-> FALSE]
    IN  IF ~c.needs THEN quiet
        ELSE IF test_mode THEN quiet
        ELSE IF current_text = None THEN quiet
        ELSE IF normalize_for_comparison(current_text) = normalize_for_comparison(new_text)
          THEN [edited |-> FALSE, cache_update |-> TRUE,
                notion |-> c.reason # "Not in cache (rebuilding)"]
        ELSE [edited |-> edit # "no_entity",
              cache_update |-> edit \in {"ok", "not_modified"},
              notion |-> edit \in {"ok", "not_modified"}]

\* fetch_events_with_telegram_ids, MessageCache() and the connection
SyncStart ==
    /\ u_pc = "start"
    /\ \E connected \in BOOLEAN :
          u_pc' = IF u_events = <<>> \/ ~connected THEN "done" ELSE "loop"
    /\ UNCHANGED <<u_test_mode, u_events, u_pos, msg_cache, telegram_texts, edit_called,
                   timestamp_updated, cache_saved>>
    /\ UNCHANGED <<text, post_date, now, called, ret_bool, ret_date, repeatVars, scanVars, schedVars, linkVars>>

EditOutcomes == {"no_entity", "ok", "failed", "not_modified"}

\* for event in events: ...
SyncEvent ==
    /\ u_pc = "loop"
    /\ u_pos <= Len(u_events)
    /\ \E edit \in EditOutcomes :
          LET event == u_events[u_pos]
              id == event.telegram_message_id
              r == sync_one(event, msg_cache, u_test_mode, telegram_texts[id], edit)
          IN  /\ edit_called' = IF r.edited THEN edit_called \cup {id} ELSE edit_called
              /\ telegram_texts' = IF r.edited /\ edit = "ok"
                                     THEN [telegram_texts EXCEPT ![id] = build_message_text(event)]
                                     ELSE telegram_texts
              /\ msg_cache' = IF r.cache_update
                                THEN [msg_cache EXCEPT ![id] = cached(event)]
                                ELSE msg_cache
              /\ timestamp_updated' = IF r.notion THEN timestamp_updated \cup {id}
                                                  ELSE timestamp_updated
    /\ u_pos' = u_pos + 1
    /\ UNCHANGED <<u_pc, u_test_mode, u_events, cache_saved>>
    /\ UNCHANGED <<text, post_date, now, called, ret_bool, ret_date, repeatVars, scanVars, schedVars, linkVars>>

\* if not test_mode: cache.save()
SyncSave ==
    /\ u_pc = "loop"
    /\ u_pos > Len(u_events)
    /\ u_pc' = "done"
    /\ cache_saved' = ~u_test_mode
    /\ UNCHANGED <<u_test_mode, u_events, u_pos, msg_cache, telegram_texts, edit_called,
                   timestamp_updated>>
    /\ UNCHANGED <<text, post_date, now, called, ret_bool, ret_date, repeatVars, scanVars, schedVars, linkVars>>

MaxSyncEvents == 2

NotionDates == {[iso |-> 1], [iso |-> 2]}

\* the events of the Notion database that carry a message id of the channel
SyncEvents(n) ==
    {evs \in [1..n -> [telegram_message_id : 1..n, title : {"A"}, image_url : {"i"},
                       last_edited_time : NotionDates,
                       timestamp_telegram : NotionDates \cup {None}]] :
        \A i \in 1..n : evs[i].telegram_message_id = i}

CachedMessages ==
    [text : {[bold |-> "html", body |-> "A"], [bold |-> "html", body |-> "B"]},
     image_url : {"i", "j"}]

TelegramTexts ==
    {[bold |-> "md", body |-> "A"], [bold |-> "html", body |-> "A"],
     [bold |-> "html", body |-> "B"]}

InitSync ==
    /\ text = MkText(<<>>, <<>>, 0, 0)
    /\ post_date = ChannelPostDate
    /\ now = datetime(2024, 8, 4, 9, FALSE)
    /\ Fresh
    /\ RepeatIdle
    /\ ScanIdle
    /\ SchedIdle
    /\ u_pc = "start"
    /\ u_test_mode \in BOOLEAN
    /\ \E n \in 0..MaxSyncEvents :
          /\ u_events \in SyncEvents(n)
          /\ msg_cache \in [1..n -> CachedMessages \cup {None}]
          /\ telegram_texts \in [1..n -> TelegramTexts \cup {None}]
    /\ u_pos = 1
    /\ edit_called = {}
    /\ timestamp_updated = {}
    /\ cache_saved = FALSE
    /\ LinkIdle

NextSync ==
    \/ SyncStart
    \/ SyncEvent
    \/ SyncSave

SpecSync == InitSync /\ [][NextSync]_vars

(***************************************************************************)
(* Part 5: the linker of                                                   *)
(* src/retrieve_telegram_message_id/telegram_messageid_notion.py           *)
(*                                                                         *)
(* An event post of a channel is [id, rank, date, location]: rank 1 is the *)
(* newest message of the channel, and the ranks left out belong to         *)
(* messages that are not event posts.  Ids grow with time.  The Notion     *)
(* database holds one event, NotionEvent; its message id per channel is    *)
(* NoId when the number property is empty.                                 *)
(***************************************************************************)

QUICK_SCAN_LIMIT == 50

NoId == 0

NotionEvent == [date |-> "5 JAN", location |-> "Fuse"]

\* hours between last_full_scan and now; None when there was no full scan
needs_full_scan(lfs) == lfs = None \/ lfs.hours_ago >= 24

\* client.iter_messages(channel_entity, limit=limit)
iter_messages(msgs, full) ==
    IF full THEN msgs ELSE SelectSeq(msgs, LAMBDA m : m.rank <= QUICK_SCAN_LIMIT)

is_linked(cache, telegram_id, is_test) ==
    IF is_test THEN telegram_id # NoId /\ telegram_id \in cache.test
               ELSE telegram_id # NoId /\ telegram_id \in cache.live

add_link(cache, telegram_id, is_test) ==
    IF is_test THEN [cache EXCEPT !.test = @ \cup {telegram_id}]
               ELSE [cache EXCEPT !.live = @ \cup {telegram_id}]

\* f"{date}|{location}".lower()
event_key(d, location) == <<d, location>>

_generate_keys(d, location) ==
    {event_key(d, location)} \cup
    (IF d \in {"5 JAN"} THEN {event_key("05 JAN", location)} ELSE {})

\* date.upper() in event['date'].upper() or event['date'].upper() in date.upper()
date_matches(d, event_date) == d = event_date

_load_notion_events_for_dates(dates, ids) ==
    IF \E d \in dates : date_matches(d, NotionEvent.date)
      THEN {[key |-> k, telegram_message_id |-> ids.live,
             telegram_test_channel_id |-> ids.test] :
                k \in _generate_keys(NotionEvent.date, NotionEvent.location)}
      ELSE {}

\* the decision smart_link_events takes for one tg_event
link_decision(tg_event, loaded, existing, is_test, test_mode) ==
    LET hit == {e \in loaded : e.key = tg_event.key}
    IN  IF hit = {} THEN "no_match"
        ELSE LET notion_event == CHOOSE e \in hit : TRUE
                 existing_id == IF is_test THEN notion_event.telegram_test_channel_id
                                           ELSE notion_event.telegram_message_id
             IN  IF existing_id = tg_event.id THEN "already_linked"
                 ELSE IF existing_id # NoId /\ existing_id \in existing THEN "skip"
                 ELSE IF ~test_mode
                        THEN (IF existing_id # NoId THEN "update" ELSE "link")
                 ELSE "would_link"

\* the variant that marks the full scan in test mode too
marks_full_scan_AnyMode(full, test_mode) == full

\* if do_full_scan and not test_mode: cache.mark_full_scan()
marks_full_scan(full, test_mode) == full /\ ~test_mode

\* the content save_cache writes
saved(cache, lfs) == [live |-> cache.live, test |-> cache.test, last_full_scan |-> lfs]

\* cache = CacheManager(); do_full_scan = cache.needs_full_scan()
LinkStart ==
    /\ l_pc = "start"
    /\ do_full_scan' = needs_full_scan(last_full_scan)
    /\ l_channel' = "live"
    /\ l_pc' = "scan"
    /\ UNCHANGED <<l_test_mode, tg_channels, notion_ids, link_cache, last_full_scan,
                   cache_file, cache_written, existing_message_ids, telegram_events,
                   notion_events, notion_updates, newly_linked>>
    /\ UNCHANGED <<text, post_date, now, called, ret_bool, ret_date, repeatVars, scanVars, schedVars, syncVars>>

\* smart_link_events up to the loop over telegram_events
ScanChannel ==
    /\ l_pc = "scan"
    /\ LET is_test == l_channel = "test"
           full == do_full_scan \/ needs_full_scan(last_full_scan)
           seen == iter_messages(tg_channels[l_channel], full)
           unlinked == SelectSeq(seen, LAMBDA m : ~is_linked(link_cache, m.id, is_test))
           found == [i \in 1..Len(unlinked) |->
                        [id |-> unlinked[i].id, date |-> unlinked[i].date,
                         key |-> event_key(unlinked[i].date, unlinked[i].location)]]
       IN  /\ existing_message_ids' = {seen[i].id : i \in 1..Len(seen)}
           /\ telegram_events' = found
           /\ notion_events' =
                 IF found # <<>> \/ full
                   THEN _load_notion_events_for_dates(
                            {found[i].date : i \in 1..Len(found)}, notion_ids)
                   ELSE notion_events
    /\ l_pc' = "link"
    /\ UNCHANGED <<l_test_mode, l_channel, do_full_scan, tg_channels, notion_ids,
                   link_cache, last_full_scan, cache_file, cache_written, notion_updates,
                   newly_linked>>
    /\ UNCHANGED <<text, post_date, now, called, ret_bool, ret_date, repeatVars, scanVars, schedVars, syncVars>>

\* for tg_event in telegram_events: ...
LinkEvent ==
    /\ l_pc = "link"
    /\ telegram_events # <<>>
    /\ \E success \in BOOLEAN :
          LET tg_event == Head(telegram_events)
              is_test == l_channel = "test"
              d == link_decision(tg_event, notion_events, existing_message_ids,
                                 is_test, l_test_mode)
              written == d \in {"update", "link"} /\ success
          IN  /\ notion_ids' = IF written THEN [notion_ids EXCEPT ![l_channel] = tg_event.id]
                                          ELSE notion_ids
              /\ notion_updates' =
                    IF written
                      THEN notion_updates \cup
                              {[channel |-> l_channel, old |-> notion_ids[l_channel],
                                new |-> tg_event.id]}
                      ELSE notion_updates
              /\ link_cache' = IF d = "already_linked" \/ written
                                 THEN add_link(link_cache, tg_event.id, is_test)
                                 ELSE link_cache
              /\ newly_linked' = IF d = "would_link" \/ (d = "link" /\ success)
                                   THEN [newly_linked EXCEPT ![l_channel] = @ + 1]
                                   ELSE newly_linked
    /\ telegram_events' = Tail(telegram_events)
    /\ UNCHANGED <<l_pc, l_test_mode, l_channel, do_full_scan, tg_channels, last_full_scan,
                   cache_file, cache_written, existing_message_ids, notion_events>>
    /\ UNCHANGED <<text, post_date, now, called, ret_bool, ret_date, repeatVars, scanVars, schedVars, syncVars>>

\* if not self.test_mode: self.cache.save_cache(); then the next channel
FinishChannel ==
    /\ l_pc = "link"
    /\ telegram_events = <<>>
    /\ cache_file' = IF ~l_test_mode THEN saved(link_cache, last_full_scan) ELSE cache_file
    /\ cache_written' = IF ~l_test_mode THEN TRUE ELSE cache_written
    /\ l_channel' = "test"
    /\ l_pc' = IF l_channel = "live" THEN "scan" ELSE "mark"
    /\ UNCHANGED <<l_test_mode, do_full_scan, tg_channels, notion_ids, link_cache,
                   last_full_scan, existing_message_ids, telegram_events, notion_events,
                   notion_updates, newly_linked>>
    /\ UNCHANGED <<text, post_date, now, called, ret_bool, ret_date, repeatVars, scanVars, schedVars, syncVars>>

\* mark_full_scan sets last_full_scan to now and saves the cache
MarkFullScan ==
    /\ l_pc = "mark"
    /\ LET mark == marks_full_scan(do_full_scan, l_test_mode)
           lfs == IF mark THEN [hours_ago |-> 0] ELSE last_full_scan
       IN  /\ last_full_scan' = lfs
           /\ cache_file' = IF mark THEN saved(link_cache, lfs) ELSE cache_file
           /\ cache_written' = IF mark THEN TRUE ELSE cache_written
    /\ l_pc' = "done"
    /\ UNCHANGED <<l_test_mode, l_channel, do_full_scan, tg_channels, notion_ids, link_cache,
                   existing_message_ids, telegram_events, notion_events, notion_updates,
                   newly_linked>>
    /\ UNCHANGED <<text, post_date, now, called, ret_bool, ret_date, repeatVars, scanVars, schedVars, syncVars>>

MaxLinkMessages == 2

Ranks == {1, QUICK_SCAN_LIMIT, QUICK_SCAN_LIMIT + 1}

Locations == {"Fuse", "Kompass"}

\* the event posts of a channel, newest first
ChannelPosts ==
    UNION {{ms \in [1..n -> [id : 1..n, rank : Ranks, date : {"5 JAN"},
                             location : Locations]] :
               /\ \A i \in 1..n : ms[i].id = n + 1 - i
               /\ \A i \in 1..n : \A j \in 1..n : i < j => ms[i].rank < ms[j].rank} :
           n \in 0..MaxLinkMessages}

\* last_full_scan of the cache file
FullScans == {None, [hours_ago |-> 1], [hours_ago |-> 24]}

InitLink ==
    /\ text = MkText(<<>>, <<>>, 0, 0)
    /\ post_date = ChannelPostDate
    /\ now = datetime(2024, 8, 4, 9, FALSE)
    /\ Fresh
    /\ RepeatIdle
    /\ ScanIdle
    /\ SchedIdle
    /\ SyncIdle
    /\ l_pc = "start"
    /\ l_test_mode \in BOOLEAN
    /\ l_channel = "live"
    /\ do_full_scan = FALSE
    /\ tg_channels \in [live : ChannelPosts, test : ChannelPosts]
    /\ notion_ids \in [live : 0..(MaxLinkMessages + 1), test : 0..(MaxLinkMessages + 1)]
    /\ \E warm \in BOOLEAN :
          link_cache = IF warm THEN [live |-> {notion_ids.live} \ {NoId},
                                     test |-> {notion_ids.test} \ {NoId}]
                               ELSE [live |-> {}, test |-> {}]
    /\ last_full_scan \in FullScans
    /\ cache_file = saved(link_cache, last_full_scan)
    /\ cache_written = FALSE
    /\ existing_message_ids = {}
    /\ telegram_events = <<>>
    /\ notion_events = {}
    /\ notion_updates = {}
    /\ newly_linked = [live |-> 0, test |-> 0]

NextLink ==
    \/ LinkStart
    \/ ScanChannel
    \/ LinkEvent
    \/ FinishChannel
    \/ MarkFullScan

SpecLink == InitLink /\ [][NextLink]_vars

(***************************************************************************)
(* Properties                                                              *)
(***************************************************************************)

\* C1: single-event date resolution.  When the first line yields a day and a
\* month name that form a date both in the post's year and in the year the
\* rule resolves to, extract_regular_event_date returns that day and month,
\* in posted_at.year + 1 exactly when (month, day) is strictly before
\* (posted_at.month, posted_at.day), and in posted_at.year otherwise (so a
\* post dated the day it is posted stays in the post's year).
C1_SingleEventYear ==
    (called = "extract_regular_event_date" /\ date_search(first_line(text)) # None) =>
        LET d == date_search(first_line(text)).day
            m == month_number(date_search(first_line(text)).month)
            before == m < post_date.month \/ (m = post_date.month /\ d < post_date.day)
            y == IF before THEN post_date.year + 1 ELSE post_date.year
        IN  (m # 0 /\ valid_ymd(post_date.year, m, d) /\ valid_ymd(y, m, d))
                => ret_date = datetime(y, m, d, 0, FALSE)

\* posted 2024-11-10 with "15 JAN" gives 2025-01-15
C1_Witness ==
    /\ called = "extract_regular_event_date"
    /\ post_date.year = 2024 /\ post_date.month = 11 /\ post_date.day = 10
    /\ first_line(text) = <<DateTok(15, "JAN")>>
    /\ ret_date = datetime(2025, 1, 15, 0, FALSE)

\* The end date the weekly rule of C2 prescribes for range r posted at p;
\* None where a date the rule passes through does not exist.
C2_RuleEnd(r, p) ==
    LET ms == month_number(r.m1)
        me == month_number(r.m2)
        \* start 00:00 lies more than 7 * 24 hours before posted_at
        roll == (toordinal(p) * 24 + p.hour)
                    - toordinal(datetime(p.year, ms, r.d1, 0, FALSE)) * 24 > 7 * 24
        sy == IF roll THEN p.year + 1 ELSE p.year
        wrap == me < ms \/ (me = ms /\ r.d2 < r.d1)
        ey == IF wrap THEN sy + 1 ELSE sy
    IN  IF \/ ms = 0 \/ me = 0
           \/ ~valid_ymd(p.year, ms, r.d1) \/ ~valid_ymd(p.year, me, r.d2)
           \/ ~valid_ymd(sy, ms, r.d1) \/ ~valid_ymd(sy, me, r.d2)
           \/ ~valid_ymd(ey, me, r.d2)
        THEN None
        ELSE datetime(ey, me, r.d2, 0, FALSE)

\* C2: weekly-summary date resolution.  Start and end are parsed against
\* posted_at's year; if start is more than 7 days before posted_at both move
\* to posted_at.year + 1; then, if end < start, only end moves to
\* start.year + 1; extract_weekly_summary_date returns the end date so
\* obtained (and None when one of these dates does not exist).
C2_WeeklyEndDate ==
    (called = "extract_weekly_summary_date" /\ range_search(text) # None) =>
        ret_date = C2_RuleEnd(range_search(text), post_date)

\* posted 2024-12-30 with "(28 DEC - 03 JAN)" gives 2025-01-03
C2_Witness ==
    /\ called = "extract_weekly_summary_date"
    /\ post_date.year = 2024 /\ post_date.month = 12 /\ post_date.day = 30
    /\ range_search(text) = RangeTok(28, "DEC", 3, "JAN")
    /\ ret_date = datetime(2025, 1, 3, 0, FALSE)

\* the case of C3: a weekly summary posted 2024-01-05 with "(20 DEC - 26 DEC)"
C3_Case ==
    /\ called = "extract_weekly_summary_date"
    /\ post_date.year = 2024 /\ post_date.month = 1 /\ post_date.day = 5
    /\ range_search(text) = RangeTok(20, "DEC", 26, "DEC")

\* C3 as stated: both range dates roll to 2025 and the resolved date is
\* 2025-12-26.
C3_AsStated == C3_Case => ret_date = datetime(2025, 12, 26, 0, FALSE)

\* C3 (amended): for a weekly summary posted at 2024-01-05 with range
\* "(20 DEC - 26 DEC)" the start, 2024-12-20, is not more than 7 days before
\* the post, so no date rolls and the resolved (end) date is 2024-12-26.
C3_NoRollForFutureStart == C3_Case => ret_date = datetime(2024, 12, 26, 0, FALSE)

C3_Witness == C3_Case /\ ret_date = datetime(2024, 12, 26, 0, FALSE)

\* C4 as stated: weekly precedence.  Every text with a day+month token in its
\* first line and a parenthesised range together with a bullet is classified
\* as a weekly summary and resolved by the weekly rule (the range's end
\* date), never by the single-event rule.
C4_WeeklyPrecedence ==
    (/\ called = "extract_event_date"
     /\ has_date_in_first_line(text)
     /\ range_search(text) # None
     /\ InText(BULLET, text)) =>
        /\ is_weekly_summary(text)
        /\ ret_date = C2_RuleEnd(range_search(text), post_date)

\* C5 as stated: is_weekly_summary is true exactly when (calendar glyph and a
\* phrase cue, case-insensitively) or (parenthesised range and a bullet); so
\* a text with the glyph and no cue is weekly when it has a range and a bullet.
C5_WeeklyClassification ==
    called = "is_weekly_summary" =>
        ret_bool = (\/ /\ InText(CALENDAR, text)
                       /\ \E cue \in weekly_patterns : InLowerText(cue, text)
                    \/ /\ range_search(text) # None
                       /\ InText(BULLET, text))

\* C6: is_daily_summary is true exactly when one of the four rules holds:
\* (template fragment, today-ref, a link); (celebratory emoji, today-ref, a
\* link, short); (today-ref, a link, short, no date in the first line);
\* (two links, short, no date in the first line); short is at most 20 lines.
C6_DailyClassification ==
    called = "is_daily_summary" =>
        LET link_count == count(text, "t.me/")
            short == Len(text) <= 20
            template == has_script_pattern(text)
            emoji == has_daily_emoji(text)
            today_ref == has_today_reference(text)
            dated == has_date_in_first_line(text)
        IN  ret_bool = (\/ template /\ today_ref /\ link_count >= 1
                        \/ emoji /\ today_ref /\ link_count >= 1 /\ short
                        \/ today_ref /\ link_count >= 1 /\ short /\ ~dated
                        \/ link_count >= 2 /\ short /\ ~dated)

\* a text of exactly 20 lines that only the last rule makes a daily summary
C6_Witness ==
    /\ called = "is_daily_summary"
    /\ ret_bool
    /\ Len(text) = 20
    /\ count(text, "t.me/") = 2
    /\ ~has_today_reference(text)
    /\ ~has_date_in_first_line(text)

\* C7 as stated: for any text that meets the daily-summary heuristic,
\* extract_event_date returns posted_at with the timezone stripped.
C7_AsStated ==
    (called = "extract_event_date" /\ is_daily_summary(text)) =>
        ret_date = [post_date EXCEPT !.tz = FALSE]

\* C7 (amended): for any text that meets the daily-summary heuristic and is
\* not a weekly summary, extract_event_date returns posted_at with the
\* timezone stripped, whatever other date-like substrings the text has.
C7_DailyUsesPostDate ==
    (called = "extract_event_date" /\ is_daily_summary(text)
        /\ ~is_weekly_summary(text)) =>
        ret_date = [post_date EXCEPT !.tz = FALSE]

\* a daily summary with a date token in its first line and a lower-case range
C7_Witness ==
    /\ called = "extract_event_date"
    /\ is_daily_summary(text)
    /\ ~is_weekly_summary(text)
    /\ has_date_in_first_line(text)
    /\ \E i \in 1..Len(text) : text[i] = <<RangeTok(4, "aug", 10, "aug")>>
    /\ post_date.tz
    /\ ret_date = datetime(2024, 8, 4, 12, FALSE)

\* C8 as stated: when a text is classified as a weekly summary and its range
\* is absent or does not parse, extract_event_date returns None, never a date
\* of the daily or the single-event rule.
C8_WeeklyFailureIsUnresolvable ==
    (/\ called = "extract_event_date"
     /\ is_weekly_summary(text)
     /\ (range_search(text) = None
            \/ C2_RuleEnd(range_search(text), post_date) = None)) =>
        ret_date = None

\* C9 as stated: extract_regular_event_date never raises, and a first-line
\* token that matches the day+month pattern without being a valid calendar
\* date (day out of range, unknown month word, 29 FEB rolling into a
\* non-leap year) always yields None.
C9_InvalidTokenUnresolvable ==
    called = "extract_regular_event_date" =>
        /\ ret_date # ValueError
        /\ date_search(first_line(text)) # None =>
            LET d == date_search(first_line(text)).day
                m == month_number(date_search(first_line(text)).month)
                before == m < post_date.month
                            \/ (m = post_date.month /\ d < post_date.day)
                y == IF before THEN post_date.year + 1 ELSE post_date.year
            IN  (m = 0 \/ ~valid_ymd(post_date.year, m, d) \/ ~valid_ymd(y, m, d))
                    => ret_date = None

\* the first line holds a 1-2 digit day followed by a word of 3 letters or more
C10_FirstLineHasToken ==
    \E i \in 1..Len(first_line(text)) :
        LET tok == first_line(text)[i]
        IN  \/ tok.kind \in {"date", "range"} /\ IsAlpha3(tok.m1)
            \/ tok.kind = "range" /\ IsAlpha3(tok.m2)

\* C10: for a text that is neither a weekly nor a daily summary, a first line
\* without a day + month-word token gives None, even if such a token stands
\* on a later line; a first line with a token that is a valid date gives that
\* day and month (the single-event rule).
C10_SingleEventOrNone ==
    (called = "extract_event_date" /\ ~is_weekly_summary(text)
        /\ ~is_daily_summary(text)) =>
        /\ ~C10_FirstLineHasToken => ret_date = None
        /\ (C10_FirstLineHasToken
            /\ month_number(date_search(first_line(text)).month) # 0
            /\ ret_date # None) =>
                /\ ret_date.month = month_number(date_search(first_line(text)).month)
                /\ ret_date.day = date_search(first_line(text)).day
                /\ ret_date.hour = 0

\* no token in the first line, "15 JAN" on the second: unresolvable
C10_Witness ==
    /\ called = "extract_event_date"
    /\ ~is_weekly_summary(text) /\ ~is_daily_summary(text)
    /\ first_line(text) = <<Word("Party")>>
    /\ text[2] = <<DateTok(15, "JAN")>>
    /\ ret_date = None

\* C11: purity.  Two applications of the same function to the same
\* (text, post_date) return the same value, whatever the wall clock reads at
\* either application.
C11_RepeatedCallsAgree ==
    again => (ret_bool = prev_bool /\ ret_date = prev_date)

\* the same text with its month tokens in upper case
C13_Upper(w) ==
    CASE w \in {"sep", "Sep"} -> "SEP"
      [] w = "aug" -> "AUG"
      [] OTHER -> w

C13_UpperMonths(t) ==
    [i \in 1..Len(t) |->
        [j \in 1..Len(t[i]) |->
            IF t[i][j].kind = "word" THEN t[i][j]
            ELSE [t[i][j] EXCEPT !.m1 = IF month_number(@) # 0 THEN C13_Upper(@) ELSE @,
                                 !.m2 = IF month_number(@) # 0 THEN C13_Upper(@) ELSE @]]]

C13_HasLowerMonth(t) == C13_UpperMonths(t) # t

\* C13 as stated: under both the single-event rule and the weekly-range
\* rule a text is classified and resolved as the same text with upper-case
\* month tokens.
C13_AsStated ==
    /\ called \in {"is_weekly_summary", "is_daily_summary"} =>
            ret_bool = returns_bool(called, C13_UpperMonths(text))
    /\ called \in {"extract_weekly_summary_date", "extract_regular_event_date",
                   "extract_event_date"} =>
            ret_date = returns_date(called, C13_UpperMonths(text), post_date, now)

\* C13: the single-event rule matches month tokens case-insensitively
\* (extract_regular_event_date resolves a text as it resolves the same text
\* with upper-case month tokens); the weekly-range rule matches capitals
\* only (a text whose only ranges have lower-case month tokens has no range
\* for extract_weekly_summary_date).
C13_SingleEventCaseInsensitive ==
    /\ called = "extract_regular_event_date" =>
            ret_date = extract_regular_event_date(C13_UpperMonths(text), post_date, now)
    /\ (/\ called = "extract_weekly_summary_date"
        /\ \A i \in 1..Len(text) : \A j \in 1..Len(text[i]) :
              text[i][j].kind = "range" =>
                  (C13_Upper(text[i][j].m1) # text[i][j].m1
                   \/ C13_Upper(text[i][j].m2) # text[i][j].m2))
       => ret_date = None

C13_Witness ==
    /\ called = "extract_regular_event_date"
    /\ text[1] = <<DateTok(6, "sep")>>
    /\ ret_date = datetime(2024, 9, 6, 0, FALSE)

\* C12: every event record has one classification: none is marked both
\* weekly summary and daily summary, and the regular, weekly and daily counts
\* of the summary add up to the number of events found.
C12_OneClassification ==
    /\ \A i \in 1..Len(events) :
          ~(events[i].is_weekly_summary /\ events[i].is_daily_summary)
    /\ counts # None =>
          counts.regular + counts.weekly + counts.daily = Len(events)

\* C14: a message without text, or whose date does not resolve, is never in
\* the event list (so never shown as Past or Future), never queued for
\* deletion and never passed to delete_messages.
C14_Unresolvable(m) ==
    no_text(m.text) \/ extract_event_date(m.text, m.date, now) = None

C14_UnresolvableSkipped ==
    \A i \in 1..Len(messages) :
        C14_Unresolvable(messages[i]) =>
            /\ \A j \in 1..Len(events) : events[j].message_id # messages[i].id
            /\ \A e \in to_delete : e.message_id # messages[i].id
            /\ messages[i].id \notin delete_called

C14_Witness ==
    /\ pc = "done"
    /\ delete_called # {}
    /\ \E i \in 1..Len(messages) :
          /\ messages[i].text = MkText(<<Word("Party")>>, <<>>, 0, 0)
          /\ messages[i].id \notin delete_called

C16_DryRunDeletesNothing ==
    dry_run => (delete_called = {} /\ deleted_count = 0 /\ pc # "delete")

C16_Witness ==
    /\ dry_run
    /\ auto_confirm
    /\ pc = "done"
    /\ past_df(events) # {}

\* C17: in a run that is not a dry run, delete_messages is called only after
\* the user has answered "yes" or "y" to the deletion prompt.
C17_DeleteNeedsAnswer ==
    delete_called # {} => (prompted /\ confirm \in {"yes", "y"})

\* C18: schedule_single_event calls update_notion_after_scheduling only after
\* send_file has succeeded for at least one channel in that call; when the
\* image download fails, or send_file fails on every channel, Notion is not
\* called and not changed and the function returns False.
C18_NotionOnlyAfterUpload ==
    last_call # None =>
        /\ last_call.notion_called => (last_call.image = "ok" /\ last_call.sent # {})
        /\ last_call.notion_changed => last_call.notion_called
        /\ (last_call.image = "failed" \/ (last_call.image = "ok" /\ last_call.sent = {}))
              => (~last_call.notion_called /\ ~last_call.notion_changed /\ ~last_call.ret)

C18_Witness ==
    /\ last_call # None
    /\ channels = <<"live", "test">>
    /\ last_call.sent = {"test"}
    /\ last_call.notion_changed
    /\ last_call.ret

\* C19: a run of schedule_all_events with dry_run = True sends or schedules
\* no Telegram message, updates no Notion page and does not write the
\* scheduling state file, whatever the ready events and the limit are.
C19_DryRunNoSideEffects ==
    s_dry_run =>
        /\ sent_once = {}
        /\ last_call # None => (~last_call.notion_called /\ ~last_call.notion_changed)
        /\ ~state_saved

\* C20: within one run no event is sent to the same channel more than once,
\* whatever send_file and the Notion update do, and no event whose page is
\* flagged published_on_telegram is among the events to schedule.
C20_NoDuplicatePosts ==
    /\ ~sent_again
    /\ \A i \in 1..Len(events_remaining) : ~notion_db[events_remaining[i]].published

\* C21: updater change detection.  sync_events calls edit_message for an
\* event only when the event has never been synced (no timestamp_telegram)
\* or its last_edited_time is later than its timestamp_telegram.
C21_EditOnlyWhenNewer ==
    \A i \in 1..Len(u_events) :
        u_events[i].telegram_message_id \in edit_called =>
            \/ u_events[i].timestamp_telegram = None
            \/ u_events[i].last_edited_time.iso > u_events[i].timestamp_telegram.iso

\* C22: linker test mode makes no changes.  In a run of run_cached_linker
\* with test_mode = True no step, for either channel and whether or not a
\* full scan is due, changes the Notion event's message ids, writes the
\* cache file or changes last_full_scan.
C22_TestModeFrame ==
    [][l_test_mode =>
          /\ notion_ids' = notion_ids
          /\ cache_file' = cache_file
          /\ cache_written' = cache_written
          /\ last_full_scan' = last_full_scan]_vars

C22_Witness ==
    /\ l_pc = "done"
    /\ l_test_mode
    /\ do_full_scan
    /\ newly_linked.live > 0
    /\ newly_linked.test > 0
    /\ ~cache_written

\* C23: the linker never re-points a Notion event whose linked message
\* still exists.  An update of the Notion event's message id for a channel
\* never replaces the id of a message that is still in that channel by the
\* id of another message, in full scans and in quick scans.
C23_NoRepointWhileLinkedExists ==
    \A u \in notion_updates :
        ~ /\ u.old # NoId
          /\ u.old # u.new
          /\ \E i \in 1..Len(tg_channels[u.channel]) : tg_channels[u.channel][i].id = u.old

====
